---- MODULE Spec2Model ----
(***************************************************************************)
(* Model of the G10 FX regime-detection pipeline:                          *)
(*   pipeline.py      fetch_fx_data, fetch_all_yields,                     *)
(*                    calculate_differentials, build_master,               *)
(*                    calculate_volatility, calculate_changes, save_data   *)
(*   cot_pipeline.py  fetch_all_cot, calculate_positioning, save_cot,      *)
(*                    merge_with_master                                    *)
(*                                                                         *)
(* A DataFrame is a record [index, data]: index the sequence of row        *)
(* timestamps, data a function from column name to the sequence of the     *)
(* column's cells.  A cell is Absent (NaN) or <<x>>.  A timestamp is a     *)
(* number of hours; day d starts at 24*d, and day 1 is a Monday.           *)
(***************************************************************************)
EXTENDS Integers, Sequences, FiniteSets, TLC

VARIABLES
    rawFx,          \* what yf.download returns: [tz, rows]
    rawYields,      \* what the yield sources return: series -> observation days
    rawCot,         \* what the CFTC files hold: sequence of report rows
    pc,             \* position in pipeline.main / cot_pipeline.main
    fx_df, yields_df, diff_df, master,      \* locals of pipeline.main
    dated_csv,      \* data/master_<TODAY>.csv (Absent while the file does not exist)
    latest_csv,     \* data/latest.csv (Absent while the file does not exist)
    raw_df,         \* result of fetch_all_cot
    positioning,    \* result of calculate_positioning: ticker -> frame
    cot_df,         \* result of save_cot, also data/cot_latest.csv
    merged_csv,     \* data/latest_with_cot.csv
    args,           \* the latest row the labels are made from
    labels,         \* the labels made so far: function or print -> text
    earlier         \* the files the run before this one left (Absent in a first run)

vars == <<rawFx, rawYields, rawCot, pc, fx_df, yields_df, diff_df, master,
          dated_csv, latest_csv, raw_df, positioning, cot_df, merged_csv,
          args, labels, earlier>>

----------------------------------------------------------------------------
(* Bounds of the model *)

\* calendar days 1..NumDays; the run date TODAY is day NumDays
NumDays == 13
\* rows of the longest history a run is started on
HistoryRows == 254
\* rows of the rolling standard deviation (30 in pipeline.py)
VolWindow == 2
\* rows of the rolling percentile window (252 * 3 in pipeline.py)
window_3y == 3
\* min_periods of the rolling percentile (126 in pipeline.py)
min_periods == 2
\* weekly reports of the EUR market in the CFTC files (JPY has one fewer)
NumReports == 4
\* percentiles tried per unit between 0 and 100
PctSteps == 2
\* net positions tried: -MaxNet..MaxNet
MaxNet == 2

----------------------------------------------------------------------------
(* Cells, timestamps, frames *)

Absent == <<>>
Some(x) == <<x>>
IsPresent(c) == c # Absent
Val(c) == c[1]

Days == 1..NumDays
Today == NumDays
Midnight(d) == 24 * d
DateOf(ts) == ts \div 24
HourOf(ts) == ts % 24
\* pandas dayofweek: Monday = 0 ... Sunday = 6
DayOfWeek(ts) == (DateOf(ts) + 6) % 7

Max(S) == CHOOSE x \in S : \A y \in S : y <= x
Min(S) == CHOOSE x \in S : \A y \in S : x <= y

\* f itself, its values computed once
Computed(f) == IF f = <<>> THEN <<>> ELSE f
\* the elements of S in ascending order
SortedSeq(S) ==
    LET rank == Computed([x \in S |-> Cardinality({y \in S : y <= x})])
    IN Computed([i \in 1..Cardinality(S) |-> CHOOSE x \in S : rank[x] = i])

\* the function with the pairs <<key, value>> of P
RECURSIVE FromPairs(_)
FromPairs(P) ==
    IF P = {} THEN <<>>
    ELSE LET e == CHOOSE e \in P : TRUE IN (e[1] :> e[2]) @@ FromPairs(P \ {e})

\* A DataFrame: its index and, per column name, the cells of the rows
EmptyFrame == [index |-> <<>>, data |-> <<>>]
Columns(df) == DOMAIN df.data
NRows(df) == Len(df.index)
Col(df, c) == df.data[c]
Cell(df, i, c) == df.data[c][i]
\* df[c] = s : add or overwrite one column
SetCol(df, c, s) == [df EXCEPT !.data = (c :> s) @@ @]
\* df[mask] : the rows at the positions of `keep`, in order
Take(df, keep) ==
    LET ks == SortedSeq(keep)
    IN [index |-> [k \in 1..Len(ks) |-> df.index[ks[k]]],
        data |-> [c \in Columns(df) |-> [k \in 1..Len(ks) |-> df.data[c][ks[k]]]]]

\* Series.ffill(limit=limit): a NaN takes the last valid value when that
\* value is at most `limit` positions back
LastValid(s, i) == Max({0} \cup {j \in 1..i : IsPresent(s[j])})
ffill(s, limit) ==
    [i \in 1..Len(s) |->
        IF IsPresent(s[i]) THEN s[i]
        ELSE LET j == LastValid(s, i)
             IN IF j > 0 /\ i - j <= limit THEN s[j] ELSE Absent]

\* Series.shift(n)
shift(s, n) == [i \in 1..Len(s) |-> IF i > n THEN s[i - n] ELSE Absent]

\* a - b on cells: NaN when either side is NaN
Sub(a, b) == IF IsPresent(a) /\ IsPresent(b) THEN Some(Val(a) - Val(b)) ELSE Absent

\* left.join(right, how="left"): the left rows, each with the right row of
\* the same index value, NaN where the right frame has no such row
PosOf(df, ts) ==
    LET hits == {i \in 1..NRows(df) : df.index[i] = ts}
    IN IF hits = {} THEN 0 ELSE Min(hits)
JoinLeft(left, right) ==
    LET pos == [i \in 1..NRows(left) |-> PosOf(right, left.index[i])]
    IN [left EXCEPT !.data =
          @ @@ [c \in Columns(right) |->
                  [i \in 1..NRows(left) |->
                      IF pos[i] = 0 THEN Absent ELSE right.data[c][pos[i]]]]]

----------------------------------------------------------------------------
(* pipeline.py -- settings *)

FX_TICKERS == {"EURUSD", "USDJPY", "DXY"}
YieldCols == {"US_2Y", "US_10Y", "DE_2Y", "DE_10Y", "JP_2Y", "JP_10Y"}
\* (leg A, leg B, label) of calculate_differentials
Spreads ==
    { <<"US_2Y",  "DE_10Y", "US_DE_10Y_spread">>,
      <<"US_2Y",  "DE_2Y",  "US_DE_2Y_spread">>,
      <<"US_2Y",  "JP_10Y", "US_JP_10Y_spread">>,
      <<"US_2Y",  "JP_2Y",  "US_JP_2Y_spread">>,
      <<"US_10Y", "US_2Y",  "US_curve">> }
SpreadCols == {sp[3] : sp \in Spreads}

\* limit= of the three forward fills
DxyFFillLimit == 5
YieldFFillLimit == 5
MasterFFillLimit == 5
\* America/New_York is UTC-5 (standard time)
NyUtcOffset == 5

----------------------------------------------------------------------------
(* pipeline.py -- step 1: fx prices *)

\* tz_localize('UTC') when the index is naive, tz_convert('America/New_York'),
\* tz_localize(None): the wall-clock time in New York of each bar
ToNewYork(raw) ==
    [index |-> [i \in 1..Len(raw.index) |-> raw.index[i] - NyUtcOffset],
     data |-> raw.data]

\* prices[prices.index.date < pd.Timestamp(TODAY).date()]
BeforeToday(df) == {i \in 1..NRows(df) : DateOf(df.index[i]) < Today}

\* the frame fetch_fx_data builds before its two prints
FxPrices(raw) ==
    LET ny == ToNewYork(raw)
        cut == Take(ny, BeforeToday(ny))
    IN SetCol(cut, "DXY", ffill(Col(cut, "DXY"), DxyFFillLimit))

\* the prints left out
FxRaises_Never(raw) == FALSE
\* prices.index[0] of the second print raises IndexError on an empty frame
FxRaises(raw) == NRows(FxPrices(raw)) = 0

----------------------------------------------------------------------------
(* pipeline.py -- step 2: all yields *)

\* value a source reports for series c on day d (all observations distinct)
YieldVal(c, d) ==
    CASE c = "US_2Y"  -> 400 + 16 * d
      [] c = "US_10Y" -> 500 + 8 * d
      [] c = "DE_2Y"  -> 200 + 4 * d
      [] c = "DE_10Y" -> 300 + 2 * d
      [] c = "JP_2Y"  -> 50 + d
      [] c = "JP_10Y" -> 100 + 32 * d

\* all_frames: the series a fetcher returned (a failed or empty fetch adds none)
AllFrames(raw) == {c \in YieldCols : raw[c] # {}}

\* pd.DataFrame(all_frames): one row per date of any series
YieldsRaw(raw) ==
    LET dates == SortedSeq(UNION {raw[c] : c \in AllFrames(raw)})
    IN [index |-> [i \in 1..Len(dates) |-> Midnight(dates[i])],
        data |-> [c \in AllFrames(raw) |->
                    [i \in 1..Len(dates) |->
                        IF dates[i] \in raw[c]
                        THEN Some(YieldVal(c, dates[i])) ELSE Absent]]]

\* the frame left with the columns of the series received
WithMissingSeries_NoneAdded(df) == df
\* missing series become all-NaN columns
WithMissingSeries(df) ==
    [df EXCEPT !.data =
        @ @@ [c \in YieldCols \ Columns(df) |-> [i \in 1..NRows(df) |-> Absent]]]

\* df[cs] = df[cs].ffill(limit=limit)
FillCols(df, cs, limit) ==
    [df EXCEPT !.data =
        [c \in Columns(df) |->
            IF c \in cs THEN ffill(df.data[c], limit) ELSE df.data[c]]]

fetch_all_yields(raw) ==
    FillCols(WithMissingSeries(YieldsRaw(raw)), YieldCols, YieldFFillLimit)

----------------------------------------------------------------------------
(* pipeline.py -- step 3: rate differentials *)

\* _spread(a, b)
Spread(df, a, b) ==
    IF a \notin Columns(df) \/ b \notin Columns(df)
    THEN [i \in 1..NRows(df) |-> Absent]
    ELSE [i \in 1..NRows(df) |-> Sub(df.data[a][i], df.data[b][i])]

calculate_differentials(df) ==
    [index |-> df.index,
     data |-> FromPairs({<<sp[3], Spread(df, sp[1], sp[2])>> : sp \in Spreads})]

----------------------------------------------------------------------------
(* pipeline.py -- step 4: build master table *)

\* the fill applied to the spread columns only
NonFxCols_SpreadsOnly(ydf, ddf) == Columns(ddf)
\* list(yields_df.columns) + list(diff_df.columns)
NonFxCols(ydf, ddf) == Columns(ydf) \cup Columns(ddf)
\* master["EURUSD"].notna()
HasCoreFx(df) == {i \in 1..NRows(df) : IsPresent(df.data["EURUSD"][i])}
\* the weekday filter left out
IsWeekday_AllRows(df) == 1..NRows(df)
\* master.index.dayofweek < 5
IsWeekday(df) == {i \in 1..NRows(df) : DayOfWeek(df.index[i]) < 5}

build_master(fx, ydf, ddf) ==
    LET joined == JoinLeft(JoinLeft(fx, ydf), ddf)
        filled == FillCols(joined, NonFxCols(ydf, ddf), MasterFFillLimit)
        core == Take(filled, HasCoreFx(filled))
    IN Take(core, IsWeekday(core))

----------------------------------------------------------------------------
(* Numbers that are not whole: fractions in lowest terms, as <<num, den>> *)

Abs(x) == IF x < 0 THEN -x ELSE x
RECURSIVE GCD(_, _)
GCD(a, b) == IF b = 0 THEN a ELSE GCD(b, a % b)
\* n / d, d > 0
Rat(n, d) ==
    LET g == GCD(Abs(n), d)
    IN IF n = 0 THEN <<0, 1>> ELSE <<n \div g, d \div g>>
RatLeq(p, q) == p[1] * q[2] <= q[1] * p[2]
RatLess(p, q) == p[1] * q[2] < q[1] * p[2]
RatGeqInt(p, k) == p[1] >= k * p[2]
RatLeqInt(p, k) == p[1] <= k * p[2]

----------------------------------------------------------------------------
(* pipeline.py -- step 3.5: volatility *)

RECURSIVE Log2(_)
Log2(p) == IF p <= 1 THEN 0 ELSE 1 + Log2(p \div 2)

\* np.log(master[pair] / master[pair].shift(1)), in units of ln 2
LogRet(s) ==
    LET prev == shift(s, 1)
    IN [i \in 1..Len(s) |->
          IF IsPresent(s[i]) /\ IsPresent(prev[i])
          THEN Some(Log2(Val(s[i])) - Log2(Val(prev[i]))) ELSE Absent]

RECURSIVE SumOver(_, _)
SumOver(f, S) ==
    IF S = {} THEN 0
    ELSE LET x == CHOOSE y \in S : TRUE IN f[x] + SumOver(f, S \ {x})

\* log_ret.rolling(window=w).std() * sqrt(252) * 100: present when all w
\* returns of the window are.  The sample standard deviation of returns r is
\* sqrt(V / (w * (w - 1))) with V = w * sum(r^2) - sum(r)^2; the column holds
\* V, of which the volatility is an increasing function.
RollingStd_SkipNaN(lr, w) ==
    [i \in 1..Len(lr) |->
        LET win == {j \in (i - w + 1)..i : j >= 1 /\ IsPresent(lr[j])}
            r == [j \in win |-> Val(lr[j])]
            sq == [j \in win |-> Val(lr[j]) * Val(lr[j])]
        IN IF win # {}
           THEN Some(w * SumOver(sq, win) - SumOver(r, win) * SumOver(r, win))
           ELSE Absent]
RollingStd(lr, w) ==
    [i \in 1..Len(lr) |->
        IF i >= w /\ \A j \in (i - w + 1)..i : IsPresent(lr[j])
        THEN LET win == (i - w + 1)..i
                 r == [j \in win |-> Val(lr[j])]
                 sq == [j \in win |-> Val(lr[j]) * Val(lr[j])]
             IN Some(w * SumOver(sq, win) - SumOver(r, win) * SumOver(r, win))
        ELSE Absent]

\* Series.rolling(window=w, min_periods=mp).rank(pct=True) * 100: the average
\* rank of s[i] among the values present in the window, over their number
AvgRankPct(obs, x) ==
    LET less == Cardinality({j \in DOMAIN obs : obs[j] < x})
        same == Cardinality({j \in DOMAIN obs : obs[j] = x})
    IN Rat(100 * (2 * less + same + 1), 2 * Cardinality(DOMAIN obs))
\* min_periods counted in rows of the window, not in values present
RollingRankPct_WindowRows(s, w, mp) ==
    [i \in 1..Len(s) |->
        LET win == {j \in 1..i : j > i - w /\ IsPresent(s[j])}
        IN IF IsPresent(s[i]) /\ Min({i, w}) >= mp
           THEN Some(AvgRankPct([j \in win |-> Val(s[j])], Val(s[i])))
           ELSE Absent]
\* rank(method="max"): the share of the window at or below the value
RollingRankPct_MaxRank(s, w, mp) ==
    [i \in 1..Len(s) |->
        LET win == {j \in 1..i : j > i - w /\ IsPresent(s[j])}
        IN IF IsPresent(s[i]) /\ Cardinality(win) >= mp
           THEN Some(Rat(100 * Cardinality({j \in win : Val(s[j]) <= Val(s[i])}),
                         Cardinality(win)))
           ELSE Absent]
RollingRankPct(s, w, mp) ==
    [i \in 1..Len(s) |->
        LET win == {j \in 1..i : j > i - w /\ IsPresent(s[j])}
        IN IF IsPresent(s[i]) /\ Cardinality(win) >= mp
           THEN Some(AvgRankPct([j \in win |-> Val(s[j])], Val(s[i])))
           ELSE Absent]

VolPairs == {"EURUSD", "USDJPY"}
Vol30Col(pair) == pair \o "_vol30"
VolPctCol(pair) == pair \o "_vol_pct"

\* the frame calculate_volatility returns, when it returns
VolColumns(m) ==
    LET pairs == VolPairs \cap Columns(m)
        vol == [p \in pairs |-> RollingStd(LogRet(Col(m, p)), VolWindow)]
        pct == [p \in pairs |-> RollingRankPct(vol[p], window_3y, min_periods)]
    IN [m EXCEPT !.data =
          FromPairs({<<Vol30Col(p), vol[p]>> : p \in pairs}
                      \cup {<<VolPctCol(p), pct[p]>> : p \in pairs}) @@ @]

HasValue(s) == \E i \in 1..Len(s) : IsPresent(s[i])
\* master[col].dropna().iloc[-1] raises IndexError on a column without values
VolRaises(m) ==
    LET out == VolColumns(m)
    IN \E p \in VolPairs \cap Columns(m) :
          ~HasValue(Col(out, Vol30Col(p))) \/ ~HasValue(Col(out, VolPctCol(p)))

\* the thresholds taken as strict
VolFlag_Above(p) == IF ~RatLeqInt(p, 90) THEN "EXTREME"
                    ELSE IF ~RatLeqInt(p, 75) THEN "ELEVATED" ELSE "NORMAL"
\* EXTREME / ELEVATED / NORMAL
VolFlag(p) == IF RatGeqInt(p, 90) THEN "EXTREME"
              ELSE IF RatGeqInt(p, 75) THEN "ELEVATED" ELSE "NORMAL"

----------------------------------------------------------------------------
(* pipeline.py -- step 5: percentage and pp changes *)

periods == { <<"1D", 1>>, <<"1W", 5>>, <<"1M", 21>>, <<"3M", 63>>, <<"12M", 252>> }
pp_cols == YieldCols \cup SpreadCols
ChgCol(c, label) == c \o "_chg_" \o label

\* the change coerced to zero where it cannot be computed
PctChg_ZeroFilled(a, b) ==
    IF IsPresent(a) /\ IsPresent(b)
    THEN Some(Rat(100 * (Val(a) - Val(b)), Val(b))) ELSE Some(<<0, 1>>)
\* (a / b - 1) * 100
PctChg(a, b) ==
    IF IsPresent(a) /\ IsPresent(b)
    THEN Some(Rat(100 * (Val(a) - Val(b)), Val(b))) ELSE Absent

FxChange(s, days) ==
    LET back == shift(s, days) IN [i \in 1..Len(s) |-> PctChg(s[i], back[i])]
PpChange(s, days) ==
    LET back == shift(s, days) IN [i \in 1..Len(s) |-> Sub(s[i], back[i])]

calculate_changes(m) ==
    [m EXCEPT !.data =
        FromPairs({<<ChgCol(c, p[1]), FxChange(Col(m, c), p[2])>> :
                      c \in FX_TICKERS \cap Columns(m), p \in periods}
                  \cup {<<ChgCol(c, p[1]), PpChange(Col(m, c), p[2])>> :
                      c \in pp_cols \cap Columns(m), p \in periods}) @@ @]

----------------------------------------------------------------------------
(* pipeline.py -- morning summary *)

\* master.dropna(subset=["EURUSD", "USDJPY"]).iloc[-1] raises IndexError when
\* no row has both
SummaryRaises(m) ==
    ~\E i \in 1..NRows(m) :
        IsPresent(Cell(m, i, "EURUSD")) /\ IsPresent(Cell(m, i, "USDJPY"))

----------------------------------------------------------------------------
(* cot_pipeline.py *)

Tickers == {"EUR", "JPY"}
Categories == {"lev", "assetmgr", "noncom"}
LongCol(cat) ==
    CASE cat = "lev"      -> "Lev_Money_Positions_Long_All"
      [] cat = "assetmgr" -> "Asset_Mgr_Positions_Long_All"
      [] cat = "noncom"   -> "Tot_Rept_Positions_Long_All"
ShortCol(cat) ==
    CASE cat = "lev"      -> "Lev_Money_Positions_Short_All"
      [] cat = "assetmgr" -> "Asset_Mgr_Positions_Short_All"
      [] cat = "noncom"   -> "Tot_Rept_Positions_Short_All"
OICol == "Open_Interest_All"
RawCotCols == {LongCol(c) : c \in Categories} \cup {ShortCol(c) : c \in Categories}
                \cup {OICol}
NetCol(cat) == cat \o "_net"
PctOiCol(cat) == cat \o "_pct_oi"
PercentileCol(cat) == cat \o "_percentile"

\* step 2: the yearly files put together, sorted by report date, exact
\* duplicates dropped; an empty DataFrame when no year could be fetched.
\* A report row is [market, date, v], v the numeric columns.
RECURSIVE SortByDate(_)
SortByDate(rows) ==
    IF rows = <<>> THEN <<>>
    ELSE LET first == Min({i \in 1..Len(rows) :
                            \A j \in 1..Len(rows) : rows[i].date <= rows[j].date})
         IN <<rows[first]>> \o
            SortByDate([i \in 1..(Len(rows) - 1) |->
                          IF i < first THEN rows[i] ELSE rows[i + 1]])
DropDuplicates(rows) ==
    LET ks == SortedSeq({i \in 1..Len(rows) : \A j \in 1..(i - 1) : rows[j] # rows[i]})
    IN [i \in 1..Len(ks) |-> rows[ks[i]]]
fetch_all_cot(raw) == DropDuplicates(SortByDate(raw))

\* net / open_interest * 100 in floating point: x / 0 is +inf or -inf
\* (written <<1, 0>>, <<-1, 0>>), 0 / 0 is NaN
PctOfOI(net, oi) ==
    IF IsPresent(net) /\ IsPresent(oi)
    THEN IF Val(oi) = 0
         THEN IF Val(net) = 0 THEN Absent
              ELSE Some(<<IF Val(net) > 0 THEN 1 ELSE -1, 0>>)
         ELSE Some(Rat(100 * Val(net), Val(oi)))
    ELSE Absent

\* Series.rank(pct=True) * 100: average rank among the values present, over
\* their number; NaN stays NaN
\* the rank taken among the reports up to the row's own date
RankPct_Expanding(s) ==
    [i \in 1..Len(s) |->
        LET obs == {j \in 1..i : IsPresent(s[j])}
        IN IF IsPresent(s[i])
           THEN Some(AvgRankPct([j \in obs |-> Val(s[j])], Val(s[i])))
           ELSE Absent]
\* rank(ascending=False)
RankPct_Descending(s) ==
    LET obs == {j \in 1..Len(s) : IsPresent(s[j])}
    IN [i \in 1..Len(s) |->
          IF IsPresent(s[i])
          THEN Some(AvgRankPct([j \in obs |-> 0 - Val(s[j])], 0 - Val(s[i])))
          ELSE Absent]
RankPct(s) ==
    LET obs == {j \in 1..Len(s) : IsPresent(s[j])}
    IN [i \in 1..Len(s) |->
          IF IsPresent(s[i])
          THEN Some(AvgRankPct([j \in obs |-> Val(s[j])], Val(s[i])))
          ELSE Absent]

\* the three derived columns of one category
\* every category netted from the Leveraged Money legs
NetOf_LevLegs(df, cat) ==
    [i \in 1..Len(df) |-> Sub(df[i].v[LongCol("lev")], df[i].v[ShortCol("lev")])]
NetOf(df, cat) ==
    [i \in 1..Len(df) |-> Sub(df[i].v[LongCol(cat)], df[i].v[ShortCol(cat)])]
PctOiOf(df, cat) ==
    LET net == NetOf(df, cat)
    IN [i \in 1..Len(df) |-> PctOfOI(net[i], df[i].v[OICol])]
PercentileOf(df, cat) == RankPct(NetOf(df, cat))

\* the reports of one market, in report-date order
MarketRows(raw, ticker) ==
    LET idx == SortedSeq({i \in 1..Len(raw) : raw[i].market = ticker})
    IN SortByDate([i \in 1..Len(idx) |-> raw[idx[i]]])
\* step 3, for one market: the frame kept in results[ticker]
PositioningOf(raw, ticker) ==
    LET df == MarketRows(raw, ticker)
    IN [index |-> [i \in 1..Len(df) |-> Midnight(df[i].date)],
        data |-> FromPairs(
            {<<c, [i \in 1..Len(df) |-> df[i].v[c]]>> : c \in RawCotCols \ {OICol}}
            \cup {<<NetCol(c), NetOf(df, c)>> : c \in Categories}
            \cup {<<PctOiCol(c), PctOiOf(df, c)>> : c \in Categories}
            \cup {<<PercentileCol(c), PercentileOf(df, c)>> : c \in Categories})]

calculate_positioning(raw) == [t \in Tickers |-> PositioningOf(raw, t)]

\* raw_df["Market_and_Exchange_Names"] raises KeyError on the empty DataFrame,
\* df.iloc[-1] raises IndexError for a market without rows
PositioningRaises(raw) ==
    \/ raw = <<>>
    \/ \E t \in Tickers : \A i \in 1..Len(raw) : raw[i].market # t

\* step 4: columns renamed with the ticker in front, the three legacy names
\* added, the tickers' frames put side by side on the union of their dates
SavedName(ticker, c) ==
    ticker \o "_" \o
    (CASE c = "Lev_Money_Positions_Long_All"  -> "lev_long"
       [] c = "Lev_Money_Positions_Short_All" -> "lev_short"
       [] c = "Asset_Mgr_Positions_Long_All"  -> "assetmgr_long"
       [] c = "Asset_Mgr_Positions_Short_All" -> "assetmgr_short"
       [] c = "Tot_Rept_Positions_Long_All"   -> "noncom_long"
       [] c = "Tot_Rept_Positions_Short_All"  -> "noncom_short"
       [] OTHER -> c)
\* the generic net position taken from the Asset Manager category
Legacy_AssetMgr == { <<"net_pos", "assetmgr_net">>, <<"net_pct_oi", "lev_pct_oi">>,
                     <<"percentile", "lev_percentile">> }
Legacy == { <<"net_pos", "lev_net">>, <<"net_pct_oi", "lev_pct_oi">>,
            <<"percentile", "lev_percentile">> }
Renamed(ticker, df) ==
    LET renamed == [df EXCEPT !.data =
                      FromPairs({<<SavedName(ticker, c), df.data[c]>> : c \in Columns(df)})]
    IN [renamed EXCEPT !.data =
          FromPairs({<<ticker \o "_" \o l[1], renamed.data[ticker \o "_" \o l[2]]>> :
                        l \in Legacy}) @@ @]

\* pd.concat(frames, axis=1)
ConcatColumns(frames) ==
    LET dates == SortedSeq(UNION {{frames[t].index[i] : i \in 1..NRows(frames[t])}
                                    : t \in DOMAIN frames})
        pos == [t \in DOMAIN frames |->
                  [i \in 1..Len(dates) |-> PosOf(frames[t], dates[i])]]
    IN [index |-> dates,
        data |-> FromPairs(
            {<<x[2], [i \in 1..Len(dates) |->
                        IF pos[x[1]][i] = 0 THEN Absent
                        ELSE frames[x[1]].data[x[2]][pos[x[1]][i]]]>> :
                x \in UNION {{t} \X Columns(frames[t]) : t \in DOMAIN frames}})]

save_cot(pos) == ConcatColumns([t \in Tickers |-> Renamed(t, pos[t])])

\* cot_df.reindex(master.index, method='ffill'): for each master date the
\* last cot row dated on or before it, NaN when there is none
AsOf(df, ts) == Max({0} \cup {i \in 1..NRows(df) : df.index[i] <= ts})
Reindexed(cot, index) ==
    LET pos == [i \in 1..Len(index) |-> AsOf(cot, index[i])]
    IN [index |-> index,
        data |-> [c \in Columns(cot) |->
                    [i \in 1..Len(index) |->
                        IF pos[i] = 0 THEN Absent ELSE cot.data[c][pos[i]]]]]
\* only the days from the first report on kept
merge_with_master_ReportDays(cot, m) ==
    LET all == [m EXCEPT !.data = Reindexed(cot, m.index).data @@ @]
    IN Take(all, {i \in 1..NRows(m) : AsOf(cot, m.index[i]) > 0})
merge_with_master(cot, m) ==
    [m EXCEPT !.data = Reindexed(cot, m.index).data @@ @]

\* the columns the final summary of main reads from results[ticker]
SummaryCols == {"net_position", "percentile", "net_pct_oi"}

----------------------------------------------------------------------------
(* Inputs: what the sources return *)

Weekdays == {d \in Days : DayOfWeek(Midnight(d)) < 5}
\* the days of calendar cal outside the gap gs..ge
Gap(cal, gs, ge) == {d \in cal : d < gs \/ d > ge}

\* prices are powers of two, so that log returns are whole numbers of ln 2
DefaultEur(d) == CASE d % 3 = 0 -> 4 [] d % 3 = 1 -> 1 [] OTHER -> 2
DefaultJpy(d) == CASE d % 4 = 0 -> 1 [] d % 4 = 1 -> 4 [] OTHER -> 2
DxyPrice(d) == 96 + d

\* the Close frame of yf.download: one bar per day of `days`, stamped at
\* `hour` o'clock; EURUSD / USDJPY have no bar on the days of eurNaN / jpyNaN,
\* the dollar index has none at weekends
RawFxFrame(tz, hour, days, eur, eurNaN, jpyNaN) ==
    LET ds == SortedSeq(days)
        n == Len(ds)
    IN [tz |-> tz,
        index |-> [i \in 1..n |-> Midnight(ds[i]) + hour],
        data |->
          [c \in FX_TICKERS |->
            [i \in 1..n |->
                CASE c = "EURUSD" ->
                        IF ds[i] \in eurNaN THEN Absent ELSE Some(eur[ds[i]])
                  [] c = "USDJPY" ->
                        IF ds[i] \in jpyNaN THEN Absent ELSE Some(DefaultJpy(ds[i]))
                  [] c = "DXY" ->
                        IF ds[i] \in Weekdays THEN Some(DxyPrice(ds[i])) ELSE Absent]]]

\* daily bars come back without a timezone, stamped at midnight, or timezone
\* aware, stamped at the instant of the New York midnight
NaiveStamp == <<"None", 0>>
NewYorkStamp == <<"UTC", NyUtcOffset>>
FxStamps == {NaiveStamp, NewYorkStamp}
Calendars == {Weekdays, Days}
DefaultEurPath == [d \in Days |-> DefaultEur(d)]
PlainFx(st, cal) == RawFxFrame(st[1], st[2], cal, DefaultEurPath, {}, {})

FullYields(cal) == [c \in YieldCols |-> cal]
\* US_2Y on its own calendar, the other five series on another
TwoCalendars(a, b) == [c \in YieldCols |-> IF c = "US_2Y" THEN a ELSE b]
OtherPatterns(cal) == {cal, {}, Gap(cal, 3, 4), Gap(cal, 3, NumDays)}

\* report j of a market: the leveraged-money legs are lev[j]; the other two
\* categories hold other positions; open interest is 4 contracts
CotReport(market, day, j, lev, odd) ==
    [market |-> market, date |-> day,
     v |-> [c \in RawCotCols |->
        CASE c = "Lev_Money_Positions_Long_All" ->
                IF odd = <<j, "long_absent">> THEN Absent ELSE Some(lev[j])
          [] c = "Lev_Money_Positions_Short_All" -> Some(1)
          [] c = "Asset_Mgr_Positions_Long_All" ->
                Some(IF j % 2 = 1 THEN 1 ELSE lev[j])
          [] c = "Asset_Mgr_Positions_Short_All" ->
                Some(IF j % 2 = 1 THEN lev[j] ELSE 1)
          [] c = "Tot_Rept_Positions_Long_All" -> Some(lev[j] + 1)
          [] c = "Tot_Rept_Positions_Short_All" -> Some(1)
          [] c = "Open_Interest_All" ->
                IF odd = <<j, "oi_absent">> THEN Absent
                ELSE IF odd = <<j, "oi_zero">> THEN Some(0) ELSE Some(4)]]

\* EUR reports on days 2, 4, 6, ..., JPY reports on days 2, 5, 8, ...
CotFile(lev, odd) ==
    [j \in 1..NumReports |-> CotReport("EUR", 2 * j, j, lev, odd)]
    \o [j \in 1..(NumReports - 1) |->
          CotReport("JPY", 3 * j - 1, j,
                    [k \in 1..NumReports |-> lev[(k % NumReports) + 1]], odd)]
NoOdd == <<0, "none">>
DefaultCot == CotFile([j \in 1..NumReports |-> j % 3], NoOdd)

\* yields with gaps, on a plain FX calendar
InputsAlignY ==
    { [fx |-> PlainFx(NewYorkStamp, fcal),
       yields |-> TwoCalendars(Gap(ycal, gs, ge), pb),
       cot |-> DefaultCot] :
        fcal \in Calendars, gs \in 1..NumDays, ge \in 0..NumDays,
        ycal \in Calendars, pb \in OtherPatterns(Weekdays) \cup {Days} }

\* an FX calendar with one odd day: no bar at all, or a bar without EURUSD,
\* or a bar without USDJPY
OddDays == { <<{}, {}, {}>> }
            \cup { <<{d}, {}, {}>> : d \in Days }
            \cup { <<{}, {d}, {}>> : d \in Days }
            \cup { <<{}, {}, {d}>> : d \in Days }
InputsAlignF ==
    { [fx |-> RawFxFrame(st[1], st[2], fcal \ odd[1], DefaultEurPath, odd[2], odd[3]),
       yields |-> ys, cot |-> DefaultCot] :
        st \in FxStamps, fcal \in Calendars, odd \in OddDays,
        ys \in {FullYields(Weekdays),
                TwoCalendars(Gap(Weekdays, 2, NumDays), Weekdays)} }

\* no FX bar at all, and no report at all
InputsNone ==
    { [fx |-> RawFxFrame("None", 0, {}, DefaultEurPath, {}, {}),
       yields |-> FullYields(Weekdays), cot |-> c] : c \in {<<>>, DefaultCot} }
    \cup { [fx |-> PlainFx(NewYorkStamp, Weekdays),
            yields |-> FullYields(Weekdays), cot |-> <<>>] }

\* every path of EURUSD closes over the two prices 1 and 2
InputsVol ==
    { [fx |-> RawFxFrame("UTC", NyUtcOffset, Weekdays, eur, {}, {}),
       yields |-> FullYields(Weekdays), cot |-> DefaultCot] :
        eur \in [Days -> {1, 2}] }

\* every run of leveraged-money longs over 0, 1, 2 contracts, with at most
\* one odd report among the first two
CotOdd == {NoOdd} \cup ((1..2) \X {"long_absent", "oi_absent", "oi_zero"})
InputsCot ==
    { [fx |-> PlainFx(NewYorkStamp, Weekdays),
       yields |-> FullYields(Weekdays), cot |-> CotFile(lev, odd)] :
        lev \in [1..NumReports -> 0..2], odd \in CotOdd }

\* a history of the first k weekdays only
InputsShort ==
    { [fx |-> PlainFx(NewYorkStamp, {d \in Weekdays : d <= k}),
       yields |-> FullYields(Weekdays), cot |-> DefaultCot] : k \in 1..5 }

InputsAlign == InputsAlignY \cup InputsAlignF \cup InputsNone \cup InputsShort
Inputs == InputsAlign \cup InputsVol \cup InputsCot

----------------------------------------------------------------------------
(* The runs: pipeline.main, then cot_pipeline.main *)

\* no latest row yet
NoArgs == [percentile |-> Absent, net |-> Absent, assetmgr_net |-> Absent]

InitWith(ins) ==
    /\ \E in \in ins :
         /\ rawFx = in.fx
         /\ rawYields = in.yields
         /\ rawCot = in.cot
    /\ pc = "fetch_fx_data"
    /\ fx_df = EmptyFrame
    /\ yields_df = EmptyFrame
    /\ diff_df = EmptyFrame
    /\ master = EmptyFrame
    /\ dated_csv = Absent
    /\ latest_csv = Absent
    /\ raw_df = <<>>
    /\ positioning = Absent
    /\ cot_df = Absent
    /\ merged_csv = Absent
    /\ args = NoArgs
    /\ labels = <<>>
    /\ earlier = Absent

Init == InitWith(Inputs)
\* the runs on the calendars, on the price paths, on the report files
InitAlign == InitWith(InputsAlign)
InitVol == InitWith(InputsVol)
InitCot == InitWith(InputsCot)

inputs == <<rawFx, rawYields, rawCot>>
label_state == <<args, labels>>
cot_state == <<raw_df, positioning, cot_df, merged_csv>>

FetchFxData ==
    /\ pc = "fetch_fx_data"
    /\ IF FxRaises(rawFx)
       THEN /\ pc' = "pipeline_failed"
            /\ UNCHANGED fx_df
       ELSE /\ fx_df' = FxPrices(rawFx)
            /\ pc' = "fetch_all_yields"
    /\ UNCHANGED <<inputs, label_state, earlier, yields_df, diff_df, master, dated_csv, latest_csv, cot_state>>

FetchAllYields ==
    /\ pc = "fetch_all_yields"
    /\ yields_df' = fetch_all_yields(rawYields)
    /\ pc' = "calculate_differentials"
    /\ UNCHANGED <<inputs, label_state, earlier, fx_df, diff_df, master, dated_csv, latest_csv, cot_state>>

CalculateDifferentials ==
    /\ pc = "calculate_differentials"
    /\ diff_df' = calculate_differentials(yields_df)
    /\ pc' = "build_master"
    /\ UNCHANGED <<inputs, label_state, earlier, fx_df, yields_df, master, dated_csv, latest_csv, cot_state>>

BuildMaster ==
    /\ pc = "build_master"
    /\ master' = build_master(fx_df, yields_df, diff_df)
    /\ pc' = "calculate_volatility"
    /\ UNCHANGED <<inputs, label_state, earlier, fx_df, yields_df, diff_df, dated_csv, latest_csv, cot_state>>

CalculateVolatility ==
    /\ pc = "calculate_volatility"
    /\ master' = VolColumns(master)
    /\ pc' = IF VolRaises(master) THEN "pipeline_failed" ELSE "calculate_changes"
    /\ UNCHANGED <<inputs, label_state, earlier, fx_df, yields_df, diff_df, dated_csv, latest_csv, cot_state>>

CalculateChanges ==
    /\ pc = "calculate_changes"
    /\ master' = calculate_changes(master)
    /\ pc' = "save_data"
    /\ UNCHANGED <<inputs, label_state, earlier, fx_df, yields_df, diff_df, dated_csv, latest_csv, cot_state>>

\* rows written after the rows the file already holds
to_csv_Appended(file, df) ==
    IF IsPresent(file)
    THEN Some([index |-> Val(file).index \o df.index,
               data |-> [c \in Columns(df) |->
                           (IF c \in Columns(Val(file)) THEN Val(file).data[c] ELSE <<>>)
                           \o df.data[c]]])
    ELSE Some(df)
\* df.to_csv(path): the file, whatever it held, now holds df
to_csv(file, df) == Some(df)

SaveData ==
    /\ pc = "save_data"
    /\ dated_csv' = to_csv(dated_csv, master)
    /\ latest_csv' = to_csv(latest_csv, master)
    /\ pc' = "print_morning_summary"
    /\ UNCHANGED <<inputs, label_state, earlier, fx_df, yields_df, diff_df, master, cot_state>>

PrintMorningSummary ==
    /\ pc = "print_morning_summary"
    /\ pc' = IF SummaryRaises(master) THEN "pipeline_failed" ELSE "pipeline_done"
    /\ UNCHANGED <<inputs, label_state, earlier, fx_df, yields_df, diff_df, master, dated_csv, latest_csv,
                   cot_state>>

pipeline_state == <<fx_df, yields_df, diff_df, master, dated_csv, latest_csv>>

\* cot_pipeline.py started by hand, once pipeline.py has ended
StartCotPipeline ==
    /\ pc \in {"pipeline_done", "pipeline_failed"}
    /\ pc' = "cot_pipeline.py"
    /\ UNCHANGED <<inputs, label_state, earlier, pipeline_state, cot_state>>

FetchAllCot ==
    /\ pc = "cot_pipeline.py"
    /\ raw_df' = fetch_all_cot(rawCot)
    /\ pc' = "calculate_positioning"
    /\ UNCHANGED <<inputs, label_state, earlier, pipeline_state, positioning, cot_df, merged_csv>>

CalculatePositioning ==
    /\ pc = "calculate_positioning"
    /\ IF PositioningRaises(raw_df)
       THEN /\ pc' = "cot_failed"
            /\ UNCHANGED positioning
       ELSE /\ positioning' = Some(calculate_positioning(raw_df))
            /\ pc' = "save_cot"
    /\ UNCHANGED <<inputs, label_state, earlier, pipeline_state, raw_df, cot_df, merged_csv>>

SaveCot ==
    /\ pc = "save_cot"
    /\ cot_df' = to_csv(cot_df, save_cot(Val(positioning)))
    /\ pc' = "merge_with_master"
    /\ UNCHANGED <<inputs, label_state, earlier, pipeline_state, raw_df, positioning, merged_csv>>

\* the positioning written alone when there is no master file
MergedFile_CotAlone(file, cot, latest) ==
    IF IsPresent(latest)
    THEN to_csv(file, merge_with_master(cot, Val(latest)))
    ELSE to_csv(file, cot)
\* data/latest_with_cot.csv after merge_with_master: left alone when
\* data/latest.csv does not exist (the function warns and returns)
MergedFile(file, cot, latest) ==
    IF IsPresent(latest)
    THEN to_csv(file, merge_with_master(cot, Val(latest)))
    ELSE file

MergeWithMaster ==
    /\ pc = "merge_with_master"
    /\ merged_csv' = MergedFile(merged_csv, Val(cot_df), latest_csv)
    /\ pc' = "cot_summary"
    /\ UNCHANGED <<inputs, label_state, earlier, pipeline_state, raw_df, positioning, cot_df>>

CotSummary ==
    /\ pc = "cot_summary"
    /\ pc' = IF \A t \in Tickers : SummaryCols \subseteq Columns(Val(positioning)[t])
             THEN "cot_done" ELSE "cot_failed"
    /\ UNCHANGED <<inputs, label_state, earlier, pipeline_state, cot_state>>

Next ==
    \/ FetchFxData
    \/ FetchAllYields
    \/ CalculateDifferentials
    \/ BuildMaster
    \/ CalculateVolatility
    \/ CalculateChanges
    \/ SaveData
    \/ PrintMorningSummary
    \/ StartCotPipeline
    \/ FetchAllCot
    \/ CalculatePositioning
    \/ SaveCot
    \/ MergeWithMaster
    \/ CotSummary

Spec == Init /\ [][Next]_vars
SpecAlign == InitAlign /\ [][Next]_vars
SpecVol == InitVol /\ [][Next]_vars
SpecCot == InitCot /\ [][Next]_vars

----------------------------------------------------------------------------
(* pipeline.main on a long history, from calculate_changes on.  The run     *)
(* date lies after the last bar, so fetch_fx_data cuts no row.              *)

\* the day of the i-th weekday
TradingDay(i) == i + 2 * ((i - 1) \div 5)
\* <<rows, step of the EURUSD cycle, row without USDJPY, rows before US_2Y>>
Histories ==
    ({7, 23, 65} \X (1..2) \X {0, 2, 6} \X {0, 1, 6})
    \cup {<<HistoryRows, 1, 2, 6>>, <<HistoryRows, 2, 0, 0>>}

\* n weekday bars; EURUSD cycles with step k, USDJPY has no close on row
\* `hole`, the dollar index gains 1% every 21 rows
HistoryFx(n, k, hole) ==
    [tz |-> "UTC",
     index |-> [i \in 1..n |-> Midnight(TradingDay(i)) + NyUtcOffset],
     data |->
       [c \in FX_TICKERS |->
         [i \in 1..n |->
            CASE c = "EURUSD" -> Some(DefaultEur(i * k))
              [] c = "USDJPY" -> IF i = hole THEN Absent ELSE Some(DefaultJpy(i))
              [] c = "DXY" -> Some(11000 + 110 * ((i - 1) \div 21)
                                     + 7 * ((i - 1) % 3))]]]
\* every series on every weekday, US_2Y from row lead + 1 on
HistoryYields(n, lead) ==
    [c \in YieldCols |->
        {TradingDay(i) : i \in (IF c = "US_2Y" THEN lead + 1 ELSE 1)..n}]

\* df itself, its cells computed once
Frame(df) ==
    [index |-> Computed(df.index),
     data |-> FromPairs({<<c, df.data[c]>> : c \in Columns(df)})]

\* the locals of main when calculate_volatility has returned
History(n, k, hole, lead) ==
    LET raw == HistoryFx(n, k, hole)
        ny == ToNewYork(raw)
        fx == Frame(SetCol(ny, "DXY", ffill(Col(ny, "DXY"), DxyFFillLimit)))
        ys == Frame(fetch_all_yields(HistoryYields(n, lead)))
        df == Frame(calculate_differentials(ys))
        built == Frame(build_master(fx, ys, df))
    IN [raw |-> raw, yields |-> HistoryYields(n, lead), fx |-> fx, ys |-> ys,
        df |-> df, master |-> VolColumns(built)]

InitChanges ==
    /\ \E x \in Histories :
         LET h == History(x[1], x[2], x[3], x[4])
         IN /\ rawFx = h.raw
            /\ rawYields = h.yields
            /\ fx_df = h.fx
            /\ yields_df = h.ys
            /\ diff_df = h.df
            /\ master = h.master
    /\ rawCot = DefaultCot
    /\ pc = "calculate_changes"
    /\ dated_csv = Absent
    /\ latest_csv = Absent
    /\ raw_df = <<>>
    /\ positioning = Absent
    /\ cot_df = Absent
    /\ merged_csv = Absent
    /\ args = NoArgs
    /\ labels = <<>>
    /\ earlier = Absent

NextChanges ==
    \/ CalculateChanges
    \/ SaveData
    \/ PrintMorningSummary

SpecChanges == InitChanges /\ [][NextChanges]_vars

----------------------------------------------------------------------------
(* The whole run made a second time: pipeline.py and cot_pipeline.py are
   started again on the same data, in the directory the run before left *)

\* the files under data/
Files == [master_dated |-> dated_csv, latest |-> latest_csv,
          cot_latest |-> cot_df, latest_with_cot |-> merged_csv]

\* the processes have ended; new ones start with fresh locals, the files stay
RunAgain ==
    /\ pc \in {"cot_done", "cot_failed"}
    /\ earlier' = Some(Files)
    /\ pc' = "fetch_fx_data"
    /\ fx_df' = EmptyFrame
    /\ yields_df' = EmptyFrame
    /\ diff_df' = EmptyFrame
    /\ master' = EmptyFrame
    /\ raw_df' = <<>>
    /\ positioning' = Absent
    /\ UNCHANGED <<inputs, label_state, dated_csv, latest_csv, cot_df, merged_csv>>

InputsRerun == InputsAlignF \cup InputsNone
InitRerun == InitWith(InputsRerun)
NextRerun == Next \/ RunAgain
SpecRerun == InitRerun /\ [][NextRerun]_vars

----------------------------------------------------------------------------
(* run_all.py: the three scripts as child processes, one after the other *)

\* subprocess.run without check=True
CalledProcessError_Unchecked(exit) == FALSE
\* subprocess.run(..., check=True) raises when the child's exit status is
\* not zero, which is how a script ends on an uncaught exception
CalledProcessError(exit) == exit \in {"pipeline_failed", "cot_failed", "dashboards_failed"}

\* the statement of run_all.py after the subprocess.run that returned
AfterStage(exit) ==
    CASE exit \in {"pipeline_done", "pipeline_failed"} -> "cot_pipeline.py"
      [] exit \in {"cot_done", "cot_failed"} -> "create_dashboards.py"
      [] exit \in {"dashboards_done", "dashboards_failed"} -> "run_all_done"

\* a child has ended, or create_dashboards.py runs to its end (the charts
\* are not part of the model: it ends one way or the other)
RunAll ==
    /\ pc \in {"pipeline_done", "pipeline_failed", "cot_done", "cot_failed",
               "create_dashboards.py", "dashboards_done", "dashboards_failed"}
    /\ IF pc = "create_dashboards.py"
       THEN pc' \in {"dashboards_done", "dashboards_failed"}
       ELSE pc' = IF CalledProcessError(pc) THEN "run_all_failed" ELSE AfterStage(pc)
    /\ UNCHANGED <<inputs, label_state, earlier, pipeline_state, cot_state>>

InitRunAll == InitWith(InputsRerun)
NextRunAll ==
    \/ FetchFxData
    \/ FetchAllYields
    \/ CalculateDifferentials
    \/ BuildMaster
    \/ CalculateVolatility
    \/ CalculateChanges
    \/ SaveData
    \/ PrintMorningSummary
    \/ RunAll
    \/ FetchAllCot
    \/ CalculatePositioning
    \/ SaveCot
    \/ MergeWithMaster
    \/ CotSummary
SpecRunAll == InitRunAll /\ [][NextRunAll]_vars

----------------------------------------------------------------------------
(* The labels: the texts made from the latest percentile and net positions.
   Of each text the part that names the regime is kept, the percentile in
   brackets and the comment after "--" are left out *)

\* x > 0 on a cell: False for NaN
Positive(c) == IsPresent(c) /\ Val(c) > 0
Negative(c) == IsPresent(c) /\ Val(c) < 0
AtLeast(c, k) == IsPresent(c) /\ RatGeqInt(Val(c), k)
AtMost(c, k) == IsPresent(c) /\ RatLeqInt(Val(c), k)

\* cot_pipeline.calculate_positioning: the regime printed per category
PrintedRegime(p) ==
    IF AtLeast(p, 80) THEN "CROWDED LONG"
    ELSE IF AtMost(p, 20) THEN "CROWDED SHORT" ELSE "NEUTRAL"

\* cot_pipeline.main: the regime of the final summary
SummaryRegime(p, net) ==
    IF AtLeast(p, 80) THEN "CROWDED LONG"
    ELSE IF AtMost(p, 20) THEN "CROWDED SHORT"
    ELSE IF Positive(net) THEN "MODERATELY LONG"
    ELSE IF Negative(net) THEN "MODERATELY SHORT"
    ELSE "NEUTRAL"

\* morning_brief._regime_label
regime_label(percentile, net) ==
    IF ~IsPresent(percentile) THEN "NO DATA"
    ELSE IF AtLeast(percentile, 80) THEN "CROWDED LONG"
    ELSE IF AtMost(percentile, 20) THEN "CROWDED SHORT"
    ELSE IF Positive(net) THEN "NEUTRAL LONG"
    ELSE "NEUTRAL SHORT"

\* morning_brief._divergence_flag
divergence_flag(lev_net, assetmgr_net) ==
    IF ~IsPresent(lev_net) \/ ~IsPresent(assetmgr_net) THEN ""
    ELSE LET lev_sign == Val(lev_net) > 0
             am_sign == Val(assetmgr_net) > 0
         IN IF lev_sign # am_sign THEN ">> DIVERGENCE" ELSE ""

\* create_dashboards.create_vol_chart: regime_text, from the last percentile
\* of the column, 50 when the column has none
VolChartRegime(pct) ==
    LET latest_pct == IF IsPresent(pct) THEN Val(pct) ELSE <<50, 1>>
    IN IF RatGeqInt(latest_pct, 90) THEN "EXTREME"
       ELSE IF RatGeqInt(latest_pct, 75) THEN "ELEVATED" ELSE "NORMAL"

\* the latest row: a percentile (of volatility, or of positioning), the
\* Leveraged Money net and the Asset Manager net
Percentiles == {Absent} \cup {Some(Rat(h, PctSteps)) : h \in 0..(100 * PctSteps)}
Nets == {Absent} \cup {Some(n) : n \in (0 - MaxNet)..MaxNet}
LatestRows == [percentile : Percentiles, net : Nets, assetmgr_net : Nets]

InitLabels ==
    /\ rawFx = PlainFx(NewYorkStamp, Weekdays)
    /\ rawYields = FullYields(Weekdays)
    /\ rawCot = DefaultCot
    /\ pc = "vol_flag"
    /\ fx_df = EmptyFrame
    /\ yields_df = EmptyFrame
    /\ diff_df = EmptyFrame
    /\ master = EmptyFrame
    /\ dated_csv = Absent
    /\ latest_csv = Absent
    /\ raw_df = <<>>
    /\ positioning = Absent
    /\ cot_df = Absent
    /\ merged_csv = Absent
    /\ args \in LatestRows
    /\ labels = <<>>
    /\ earlier = Absent

Labelled(name, text, next) ==
    /\ labels' = (name :> text) @@ labels
    /\ pc' = next
    /\ UNCHANGED <<inputs, pipeline_state, cot_state, args, earlier>>

\* calculate_volatility: master[pct_col].dropna().iloc[-1] raises IndexError
\* when the column has no percentile
FlagVolatility ==
    /\ pc = "vol_flag"
    /\ IF IsPresent(args.percentile)
       THEN Labelled("calculate_volatility", VolFlag(Val(args.percentile)), "printed_regime")
       ELSE /\ pc' = "printed_regime"
            /\ UNCHANGED <<inputs, pipeline_state, cot_state, label_state, earlier>>

PrintRegime ==
    /\ pc = "printed_regime"
    /\ Labelled("calculate_positioning", PrintedRegime(args.percentile), "summary_regime")

SummarizeRegime ==
    /\ pc = "summary_regime"
    /\ Labelled("main", SummaryRegime(args.percentile, args.net), "vol_chart")

CreateVolChart ==
    /\ pc = "vol_chart"
    /\ Labelled("create_vol_chart", VolChartRegime(args.percentile), "regime_label")

RegimeLabel ==
    /\ pc = "regime_label"
    /\ Labelled("_regime_label", regime_label(args.percentile, args.net), "divergence_flag")

DivergenceFlag ==
    /\ pc = "divergence_flag"
    /\ Labelled("_divergence_flag", divergence_flag(args.net, args.assetmgr_net),
                "labels_done")

NextLabels ==
    \/ FlagVolatility
    \/ PrintRegime
    \/ SummarizeRegime
    \/ CreateVolChart
    \/ RegimeLabel
    \/ DivergenceFlag

SpecLabels == InitLabels /\ [][NextLabels]_vars

----------------------------------------------------------------------------
(* Properties of the master panel *)

\* build_master has returned
MasterBuilt ==
    pc \notin {"fetch_fx_data", "fetch_all_yields", "calculate_differentials",
               "build_master"}
    /\ "EURUSD" \in Columns(master)

\* master rows after the date of day d, up to row i
RowsSince(d, i) == Cardinality({k \in 1..i : master.index[k] > Midnight(d)})

\* C1: every yield value of the master panel is an observation of its series
\* made on the row's date or at most 5 master rows earlier
C1_YieldCarriedAtMostFiveRows ==
    MasterBuilt =>
        \A c \in YieldCols : \A i \in 1..NRows(master) :
            IsPresent(Cell(master, i, c)) =>
                \E d \in rawYields[c] :
                    /\ Cell(master, i, c) = Some(YieldVal(c, d))
                    /\ Midnight(d) <= master.index[i]
                    /\ RowsSince(d, i) <= 5

\* C2: where both legs are present the spread is present and is leg A minus
\* leg B of the same row
C2_SpreadIsLegDifference ==
    MasterBuilt =>
        \A sp \in Spreads : \A i \in 1..NRows(master) :
            (IsPresent(Cell(master, i, sp[1])) /\ IsPresent(Cell(master, i, sp[2])))
            => Cell(master, i, sp[3]) =
                 Some(Val(Cell(master, i, sp[1])) - Val(Cell(master, i, sp[2])))

\* C3: where a leg is absent the spread is absent
C3_SpreadAbsentWithoutLeg ==
    MasterBuilt =>
        \A sp \in Spreads : \A i \in 1..NRows(master) :
            (~IsPresent(Cell(master, i, sp[1])) \/ ~IsPresent(Cell(master, i, sp[2])))
            => ~IsPresent(Cell(master, i, sp[3]))

\* a row without a leg, after a row that had the spread
C3_Witness ==
    /\ MasterBuilt
    /\ \E sp \in Spreads : \E i \in 1..NRows(master) :
          /\ ~IsPresent(Cell(master, i, sp[1]))
          /\ IsPresent(Cell(master, i, sp[2]))
          /\ \E k \in 1..(i - 1) : IsPresent(Cell(master, k, sp[3]))

\* the panels that exist: the master of the run, the saved files
Panels ==
    (IF MasterBuilt THEN {master} ELSE {})
    \cup {Val(f) : f \in {x \in {dated_csv, latest_csv, merged_csv} : IsPresent(x)}}

\* C4: every panel row is dated Monday to Friday, the row dates are FX dates
\* and strictly increasing
C4_WeekdayRowsOfFxCalendar ==
    \A p \in Panels : \A i \in 1..NRows(p) :
        /\ DayOfWeek(p.index[i]) < 5
        /\ \E k \in 1..NRows(fx_df) : fx_df.index[k] = p.index[i]
        /\ i > 1 => p.index[i - 1] < p.index[i]

\* the FX source had weekend bars, and the merged panel is written
C4_Witness ==
    /\ \E k \in 1..NRows(fx_df) : DayOfWeek(fx_df.index[k]) >= 5
    /\ \E k \in 1..NRows(yields_df) : DayOfWeek(yields_df.index[k]) >= 5
    /\ IsPresent(merged_csv) /\ NRows(Val(merged_csv)) > 3
    /\ "EURUSD_chg_1D" \in Columns(Val(merged_csv))

\* C5: every row of the master panel has EURUSD and USDJPY
C5_DefiningPricesPresent ==
    MasterBuilt =>
        \A i \in 1..NRows(master) :
            IsPresent(Cell(master, i, "EURUSD")) /\ IsPresent(Cell(master, i, "USDJPY"))

\* the master panel carries the volatility columns of its pairs
VolDone == MasterBuilt /\ \A p \in VolPairs : VolPctCol(p) \in Columns(master)

\* the vol30 values present in the trailing window of row i
WindowObs(p, i) ==
    {j \in 1..i : j > i - window_3y /\ IsPresent(Cell(master, j, Vol30Col(p)))}

\* C6: the volatility percentile of a row is present only if the trailing
\* window ending at the row holds at least min_periods vol30 values
C6_PercentileNeedsMinPeriods ==
    VolDone =>
        \A p \in VolPairs : \A i \in 1..NRows(master) :
            IsPresent(Cell(master, i, VolPctCol(p)))
            => Cardinality(WindowObs(p, i)) >= min_periods

\* a percentile is emitted, and an earlier row has a vol30 value and min_periods
\* rows behind it but no percentile
C6_Witness ==
    /\ VolDone
    /\ \E p \in VolPairs : \E i \in 1..NRows(master) :
          /\ IsPresent(Cell(master, i, VolPctCol(p)))
          /\ \E k \in min_periods..(i - 1) :
                /\ IsPresent(Cell(master, k, Vol30Col(p)))
                /\ ~IsPresent(Cell(master, k, VolPctCol(p)))

\* window values at or below, and strictly below, the value of row i
AtOrBelow(p, i) ==
    Cardinality({j \in WindowObs(p, i) :
        Val(Cell(master, j, Vol30Col(p))) <= Val(Cell(master, i, Vol30Col(p)))})
Below(p, i) ==
    Cardinality({j \in WindowObs(p, i) :
        Val(Cell(master, j, Vol30Col(p))) < Val(Cell(master, i, Vol30Col(p)))})

Positioned == IsPresent(positioning)
NetAt(t, c, i) == Cell(Val(positioning)[t], i, NetCol(c))
PercentileAt(t, c, i) == Cell(Val(positioning)[t], i, PercentileCol(c))
Reports(t) == 1..NRows(Val(positioning)[t])
\* the reports of market t with a net in category c
WithNet(t, c) == {j \in Reports(t) : IsPresent(NetAt(t, c, j))}
\* 1-based places, in ascending order of net, taken by the nets equal to row i's
Places(t, c, i) ==
    LET below == Cardinality({j \in WithNet(t, c) : Val(NetAt(t, c, j)) < Val(NetAt(t, c, i))})
        equal == Cardinality({j \in WithNet(t, c) : Val(NetAt(t, c, j)) = Val(NetAt(t, c, i))})
    IN (below + 1)..(below + equal)

\* C8: the percentile of a report is 100 times the mean of the places its net
\* and the nets equal to it take among all nets of the market and category,
\* later reports included, over the number of those nets
C8_PercentileIsAverageRankOfAllNets ==
    Positioned =>
        \A t \in Tickers : \A c \in Categories : \A i \in Reports(t) :
            /\ IsPresent(PercentileAt(t, c, i)) <=> IsPresent(NetAt(t, c, i))
            /\ IsPresent(NetAt(t, c, i)) =>
                 LET pct == Val(PercentileAt(t, c, i))
                     places == Places(t, c, i)
                 IN pct[1] * Cardinality(places) * Cardinality(WithNet(t, c))
                      = 100 * SumOver([k \in places |-> k], places) * pct[2]

\* a net held by two reports or more, and a later report with a smaller net
C8_Witness ==
    /\ Positioned
    /\ \E t \in Tickers : \E c \in Categories : \E i \in WithNet(t, c) :
          /\ Cardinality(Places(t, c, i)) >= 2
          /\ \E k \in WithNet(t, c) :
                k > i /\ Val(NetAt(t, c, k)) < Val(NetAt(t, c, i))

\* C9: a smaller net never has a larger percentile, equal nets have equal
\* percentiles
C9_PercentileMonotonic ==
    Positioned =>
        \A t \in Tickers : \A c \in Categories : \A i, j \in WithNet(t, c) :
            /\ Val(NetAt(t, c, i)) < Val(NetAt(t, c, j))
                 => RatLeq(Val(PercentileAt(t, c, i)), Val(PercentileAt(t, c, j)))
            /\ Val(NetAt(t, c, i)) = Val(NetAt(t, c, j))
                 => PercentileAt(t, c, i) = PercentileAt(t, c, j)

\* three reports of one market and category: two nets equal, one larger
C9_Witness ==
    /\ Positioned
    /\ \E t \in Tickers : \E c \in Categories : \E i, j, k \in WithNet(t, c) :
          /\ i # j
          /\ Val(NetAt(t, c, i)) = Val(NetAt(t, c, j))
          /\ Val(NetAt(t, c, j)) < Val(NetAt(t, c, k))
          /\ PercentileAt(t, c, j) # PercentileAt(t, c, k)

\* C10: net_pct_oi is net / open_interest * 100 where open interest is present
\* and not zero, and absent where open interest is zero or absent
C10_PctOiAbsentWithoutOpenInterest ==
    Positioned =>
        \A t \in Tickers : \A c \in Categories : \A i \in Reports(t) :
            LET oi == MarketRows(raw_df, t)[i].v[OICol]
                pct_oi == Cell(Val(positioning)[t], i, PctOiCol(c))
            IN /\ (IsPresent(oi) /\ Val(oi) # 0 /\ IsPresent(NetAt(t, c, i)))
                    => pct_oi = Some(Rat(100 * Val(NetAt(t, c, i)), Val(oi)))
               /\ (~IsPresent(oi) \/ Val(oi) = 0) => ~IsPresent(pct_oi)

\* the change columns are computed
ChangesDone == MasterBuilt /\ ChgCol("EURUSD", "1D") \in Columns(master)
Lookbacks == { <<"1D", 1>>, <<"1W", 5>>, <<"1M", 21>>, <<"3M", 63>>, <<"12M", 252>> }
PriceCols == {"EURUSD", "USDJPY", "DXY"}
LevelCols == {"US_2Y", "US_10Y", "DE_2Y", "DE_10Y", "JP_2Y", "JP_10Y",
              "US_DE_10Y_spread", "US_DE_2Y_spread", "US_JP_10Y_spread",
              "US_JP_2Y_spread", "US_curve"}
\* row t and the row N rows earlier both have a value in column c
Comparable(c, t, N) ==
    t > N /\ IsPresent(Cell(master, t, c)) /\ IsPresent(Cell(master, t - N, c))

\* C11: for each lookback N the change of a price column at row t is
\* (value[t] / value[t-N] - 1) * 100 and the change of a yield, spread or curve
\* column is value[t] - value[t-N]; it is absent when t has fewer than N rows
\* before it or either value is absent
C11_ChangeOverLookback ==
    ChangesDone =>
        \A lb \in Lookbacks :
            /\ \A c \in PriceCols :
                 LET chg == Col(master, c \o "_chg_" \o lb[1])
                     val == Col(master, c)
                 IN \A t \in 1..NRows(master) :
                      IF Comparable(c, t, lb[2])
                      THEN /\ IsPresent(chg[t])
                           /\ Val(chg[t])[2] > 0
                           /\ Val(chg[t])[1] * Val(val[t - lb[2]])
                                = 100 * (Val(val[t]) - Val(val[t - lb[2]])) * Val(chg[t])[2]
                      ELSE chg[t] = Absent
            /\ \A c \in LevelCols :
                 LET chg == Col(master, c \o "_chg_" \o lb[1])
                     val == Col(master, c)
                 IN \A t \in 1..NRows(master) :
                      IF Comparable(c, t, lb[2])
                      THEN chg[t] = Some(Val(val[t]) - Val(val[t - lb[2]]))
                      ELSE chg[t] = Absent

\* a dollar index of 11000 that is 11110 21 rows later has a 1M change of 1;
\* a 12M change is computed; a 1D change is absent next to a missing close and
\* a 1W change of US_2Y is absent on a row five rows after a missing value
C11_Witness ==
    /\ ChangesDone
    /\ NRows(master) > 252
    /\ Cell(master, 1, "DXY") = Some(11000)
    /\ Cell(master, 22, "DXY") = Some(11110)
    /\ Cell(master, 22, "DXY_chg_1M") = Some(<<1, 1>>)
    /\ IsPresent(Cell(master, 253, "EURUSD_chg_12M"))
    /\ IsPresent(Cell(master, 253, "DE_10Y_chg_12M"))
    /\ IsPresent(Cell(master, 254, "US_curve_chg_3M"))
    /\ ~IsPresent(Cell(master, 2, "USDJPY"))
    /\ ~IsPresent(Cell(master, 3, "USDJPY_chg_1D"))
    /\ ~IsPresent(Cell(master, 6, "US_2Y"))
    /\ IsPresent(Cell(master, 11, "US_2Y"))
    /\ ~IsPresent(Cell(master, 11, "US_2Y_chg_1W"))
    /\ IsPresent(Cell(master, 12, "US_2Y_chg_1W"))

\* the last report of market t dated on or before the timestamp, 0 when none
LatestReport(t, ts) ==
    Max({0} \cup {k \in Reports(t) : Val(positioning)[t].index[k] <= ts})

\* C12: every positioning column of the merged panel holds, on every daily
\* row, the value of the instrument's most recent report dated on or before
\* the row, and is absent only when the instrument has no such report
C12_MergedValueIsLatestReport ==
    (Positioned /\ IsPresent(merged_csv)) =>
        \A t \in Tickers : \A c \in Columns(Val(positioning)[t]) :
            LET merged == Col(Val(merged_csv), SavedName(t, c))
                weekly == Col(Val(positioning)[t], c)
            IN \A i \in 1..NRows(Val(merged_csv)) :
                 LET k == LatestReport(t, Val(merged_csv).index[i])
                 IN merged[i] = IF k = 0 THEN Absent ELSE weekly[k]

\* the yield series no source delivered
FailedSeries == {c \in YieldCols : rawYields[c] = {}}
YieldsFetched == pc \in {"calculate_differentials", "build_master"} \/ MasterBuilt
EntirelyAbsent(df, c) == \A i \in 1..NRows(df) : ~IsPresent(Cell(df, i, c))

\* C13: whatever series fail, fetch_all_yields returns the six yield columns,
\* the failed ones entirely absent; the master panel is built with the FX
\* columns, with the values of the remaining series on the rows of their
\* dates, and with the spreads of a failed series entirely absent; the run
\* saves it, and fails only where it fails without any yield: no FX bar, or
\* no volatility percentile or price pair to print
C13_MissingSourceDoesNotBlock ==
    /\ YieldsFetched =>
         /\ Columns(yields_df) = YieldCols
         /\ \A c \in FailedSeries : EntirelyAbsent(yields_df, c)
    /\ MasterBuilt =>
         /\ FX_TICKERS \cup YieldCols \cup SpreadCols \subseteq Columns(master)
         /\ \A i \in 1..NRows(master) : IsPresent(Cell(master, i, "EURUSD"))
         /\ \A c \in FailedSeries : EntirelyAbsent(master, c)
         /\ \A sp \in Spreads :
               ({sp[1], sp[2]} \cap FailedSeries # {}) => EntirelyAbsent(master, sp[3])
         /\ \A c \in YieldCols \ FailedSeries : \A i \in 1..NRows(master) :
               \A k \in 1..NRows(yields_df) :
                  (yields_df.index[k] = master.index[i] /\ IsPresent(Cell(yields_df, k, c)))
                  => Cell(master, i, c) = Cell(yields_df, k, c)
    /\ pc \in {"print_morning_summary", "pipeline_done"} =>
         /\ latest_csv = Some(master)
         /\ dated_csv = Some(master)
    /\ pc = "pipeline_failed" =>
         \/ FxRaises(rawFx)
         \/ MasterBuilt /\ (VolRaises(master) \/ SummaryRaises(master))

\* a run that ended with some series failed and others not: the saved panel
\* has rows, and a value in the column of a series that did not fail
C13_Witness ==
    /\ pc = "pipeline_done"
    /\ FailedSeries # {}
    /\ IsPresent(latest_csv)
    /\ NRows(Val(latest_csv)) > 3
    /\ \E c \in YieldCols \ FailedSeries : ~EntirelyAbsent(Val(latest_csv), c)

\* C14: when the positioning source delivers no report at all, the
\* cot_pipeline run does not end by raising
C14_NoReportsRunFinishes == (rawCot = <<>>) => pc # "cot_failed"

\* C15: when the FX source returns no row, the pipeline run stops in
\* fetch_fx_data: no later step runs and neither master file is written; and
\* no file ever written holds a panel without rows
C15_NoFxNoMasterFile ==
    /\ NRows(rawFx) = 0 =>
         /\ pc \notin {"fetch_all_yields", "calculate_differentials", "build_master",
                       "calculate_volatility", "calculate_changes", "save_data",
                       "print_morning_summary", "pipeline_done"}
         /\ yields_df = EmptyFrame /\ master = EmptyFrame
         /\ dated_csv = Absent /\ latest_csv = Absent
    /\ \A f \in {dated_csv, latest_csv} : IsPresent(f) => NRows(Val(f)) > 0

\* the pipeline run has failed on an FX download without rows
C15_Witness == NRows(rawFx) = 0 /\ pc = "pipeline_failed"

\* the key fetch_fx_data gives to bar k of the download
KeyOfBar(k) == ToNewYork(rawFx).index[k]
FxFetched == fx_df # EmptyFrame

\* C16: every row fetch_fx_data returns is keyed by a date before TODAY, and
\* no bar the download dates today or later is among the rows
C16_TodaysBarNeverEnters ==
    FxFetched =>
      /\ \A i \in 1..NRows(fx_df) : DateOf(fx_df.index[i]) < Today
      /\ \A k \in 1..NRows(rawFx) :
            DateOf(rawFx.index[k]) >= Today =>
               \A i \in 1..NRows(fx_df) : fx_df.index[i] # KeyOfBar(k)

\* C17: every key of the frame fetch_fx_data returns is a date without a time
\* of day, and the bar of a weekday D stands in the master panel on the row
\* D, together with the yields observed on D
C17_FxKeysArePureDates ==
    /\ FxFetched => \A i \in 1..NRows(fx_df) : HourOf(fx_df.index[i]) = 0
    /\ MasterBuilt =>
         \A k \in 1..NRows(rawFx) :
            LET D == DateOf(rawFx.index[k])
            IN (D < Today /\ D \in Weekdays /\ IsPresent(rawFx.data["EURUSD"][k])) =>
                 \E i \in 1..NRows(master) :
                    /\ master.index[i] = Midnight(D)
                    /\ Cell(master, i, "EURUSD") = rawFx.data["EURUSD"][k]
                    /\ \A c \in YieldCols :
                          D \in rawYields[c] => Cell(master, i, c) = Some(YieldVal(c, D))

Made(name) == name \in DOMAIN labels
\* the regime of C18 for percentile p and net position net
StatedRegime(p, net) ==
    IF AtLeast(p, 80) THEN "CROWDED LONG"
    ELSE IF AtMost(p, 20) THEN "CROWDED SHORT"
    ELSE IF IsPresent(net) /\ Val(net) = 0 THEN "NEUTRAL"
    ELSE IF Positive(net) THEN "MODERATELY LONG"
    ELSE "MODERATELY SHORT"

\* C18: wherever a positioning regime is reported for a latest percentile p
\* and a net position (both present), it is CROWDED LONG if p >= 80, CROWDED
\* SHORT if p <= 20, otherwise NEUTRAL for a net of zero, MODERATELY LONG for
\* a positive and MODERATELY SHORT for a negative net
C18_RegimeOfPercentileAndNet ==
    (IsPresent(args.percentile) /\ IsPresent(args.net)) =>
       \A name \in {"calculate_positioning", "main", "_regime_label"} :
          Made(name) => labels[name] = StatedRegime(args.percentile, args.net)

\* C19: the volatility regime is EXTREME for a latest percentile p >= 90,
\* ELEVATED for 75 <= p < 90 and NORMAL below, and calculate_volatility and
\* create_vol_chart give the same label for the same p
C19_VolRegimeOfPercentile ==
    IsPresent(args.percentile) =>
       LET p == Val(args.percentile)
           stated == IF RatLeq(<<90, 1>>, p) THEN "EXTREME"
                     ELSE IF RatLeq(<<75, 1>>, p) /\ RatLess(p, <<90, 1>>) THEN "ELEVATED"
                     ELSE "NORMAL"
       IN /\ \A name \in {"calculate_volatility", "create_vol_chart"} :
                Made(name) => labels[name] = stated
          /\ (Made("calculate_volatility") /\ Made("create_vol_chart")) =>
                labels["calculate_volatility"] = labels["create_vol_chart"]

\* both labels made for a percentile of exactly 90, and both EXTREME
C19_Witness ==
    /\ args.percentile = Some(<<90, 1>>)
    /\ Made("calculate_volatility") /\ Made("create_vol_chart")
    /\ labels["calculate_volatility"] = "EXTREME"
    /\ labels["create_vol_chart"] = "EXTREME"

Sign(n) == IF n > 0 THEN 1 ELSE IF n < 0 THEN 0 - 1 ELSE 0

\* C20: _divergence_flag returns the flag exactly when both nets are present
\* and their signs differ, whatever their magnitudes
C20_FlagIffSignsDisagree ==
    Made("_divergence_flag") =>
       ( labels["_divergence_flag"] # ""
         <=> /\ IsPresent(args.net) /\ IsPresent(args.assetmgr_net)
             /\ Sign(Val(args.net)) # Sign(Val(args.assetmgr_net)) )

----------------------------------------------------------------------------
(* Properties of the saved positioning panel and of the stages *)

\* the generic and the Leveraged Money name of the same figure
LegacyPairs == { <<"net_pos", "lev_net">>, <<"net_pct_oi", "lev_pct_oi">>,
                 <<"percentile", "lev_percentile">> }
Mirrors(df) ==
    \A t \in Tickers : \A l \in LegacyPairs :
       LET old == t \o "_" \o l[1]
           new == t \o "_" \o l[2]
       IN /\ {old, new} \subseteq Columns(df)
          /\ \A i \in 1..NRows(df) : Cell(df, i, old) = Cell(df, i, new)

\* C21: the panel save_cot returns and the merged panel hold, for EUR and
\* JPY, the generic columns net_pos, net_pct_oi, percentile next to the
\* Leveraged Money ones, equal on every row (both absent or the same value)
C21_LegacyColumnsMirrorLevMoney ==
    /\ IsPresent(cot_df) => Mirrors(Val(cot_df))
    /\ IsPresent(merged_csv) => Mirrors(Val(merged_csv))

\* a merged panel with a row before the first report (mirrors absent) and a
\* row carrying a Leveraged Money net different from the Asset Manager net
C21_Witness ==
    /\ IsPresent(merged_csv)
    /\ \E i, j \in 1..NRows(Val(merged_csv)) :
          /\ ~IsPresent(Cell(Val(merged_csv), i, "EUR_net_pos"))
          /\ IsPresent(Cell(Val(merged_csv), j, "EUR_net_pos"))
          /\ Cell(Val(merged_csv), j, "EUR_net_pos")
               # Cell(Val(merged_csv), j, "EUR_assetmgr_net")

LongAt(t, c, i) == Cell(Val(positioning)[t], i, LongCol(c))
ShortAt(t, c, i) == Cell(Val(positioning)[t], i, ShortCol(c))
PctOiAt(t, c, i) == Cell(Val(positioning)[t], i, PctOiCol(c))
\* Open_Interest_All of report i of market t
OpenInterestAt(t, i) == MarketRows(raw_df, t)[i].v[OICol]

\* C22: in every category the net of a report is that category's own long
\* leg minus its own short leg, absent when either is; its share of open
\* interest is 100 times that net over the report's open interest, and its
\* percentile is the average rank of that net among the category's own nets
C22_CategoriesNeverMixed ==
    Positioned =>
        \A t \in Tickers : \A c \in Categories : \A i \in Reports(t) :
            /\ IsPresent(NetAt(t, c, i))
                 <=> (IsPresent(LongAt(t, c, i)) /\ IsPresent(ShortAt(t, c, i)))
            /\ IsPresent(NetAt(t, c, i)) =>
                 /\ Val(NetAt(t, c, i)) = Val(LongAt(t, c, i)) - Val(ShortAt(t, c, i))
                 /\ LET oi == OpenInterestAt(t, i)
                    IN (IsPresent(oi) /\ Val(oi) # 0) =>
                          /\ IsPresent(PctOiAt(t, c, i))
                          /\ Val(PctOiAt(t, c, i))[1] * Val(oi)
                               = 100 * Val(NetAt(t, c, i)) * Val(PctOiAt(t, c, i))[2]
                 /\ IsPresent(PercentileAt(t, c, i))
                 /\ LET pct == Val(PercentileAt(t, c, i))
                        places == Places(t, c, i)
                    IN pct[1] * Cardinality(places) * Cardinality(WithNet(t, c))
                         = 100 * SumOver([k \in places |-> k], places) * pct[2]

\* a report whose three categories have three different nets, three
\* different shares of open interest and not all the same percentile
C22_Witness ==
    /\ Positioned
    /\ \E t \in Tickers : \E i \in Reports(t) :
          /\ \A c \in Categories : IsPresent(NetAt(t, c, i)) /\ IsPresent(PctOiAt(t, c, i))
          /\ Cardinality({NetAt(t, c, i) : c \in Categories}) = 3
          /\ Cardinality({PctOiAt(t, c, i) : c \in Categories}) = 3
          /\ Cardinality({PercentileAt(t, c, i) : c \in Categories}) > 1

\* C23: a run made again on the same source data and the same TODAY leaves
\* every file as the run before left it: while it goes and when it has
\* ended, the master files, the positioning panel and the merged panel are
\* those of the earlier run
C23_SecondRunSameFiles == IsPresent(earlier) => Files = Val(earlier)

\* a second run that has ended after writing the three panels again
C23_Witness ==
    /\ IsPresent(earlier)
    /\ pc \in {"cot_done", "cot_failed"}
    /\ IsPresent(positioning)
    /\ IsPresent(merged_csv) /\ NRows(Val(merged_csv)) > 3
    /\ latest_csv = Some(master)

\* the spreads are computed
DifferentialDone == SpreadCols \subseteq Columns(diff_df)
\* the positioning columns are merged onto the panel
MergeDone == IsPresent(merged_csv)

\* C24: the stages run in the order Aligner, Differential, Volatility,
\* Positioning-merge, Change: the spreads exist only once the yields are
\* aligned on the panel, the volatility columns only once the spreads are
\* there, the change columns only once the positioning is merged
C24_StagesInStatedOrder ==
    /\ DifferentialDone => (MasterBuilt /\ YieldCols \subseteq Columns(master))
    /\ VolDone => DifferentialDone
    /\ ChangesDone => MergeDone

\* frame b is frame a with columns added: the same rows in the same order,
\* every column of a with the values it had
AddsColumns(a, b) ==
    /\ b.index = a.index
    /\ Columns(a) \subseteq Columns(b)
    /\ \A c \in Columns(a) : b.data[c] = a.data[c]

StepAddsColumns ==
    /\ pc = "calculate_volatility" =>
          /\ AddsColumns(master, master')
          /\ \A p \in VolPairs : {Vol30Col(p), VolPctCol(p)} \subseteq Columns(master')
    /\ pc = "calculate_changes" =>
          /\ AddsColumns(master, master')
          /\ ChgCol("EURUSD", "1D") \in Columns(master')
    /\ pc = "merge_with_master" =>
          /\ latest_csv' = latest_csv
          /\ IsPresent(latest_csv) =>
                /\ IsPresent(merged_csv')
                /\ AddsColumns(Val(latest_csv), Val(merged_csv'))
                /\ "EUR_lev_net" \in Columns(Val(merged_csv'))

\* C25: calculate_volatility, calculate_changes and merge_with_master keep
\* the rows of the panel they are given, in their order, and the values of
\* its columns, and add their own columns; merge_with_master writes
\* data/latest_with_cot.csv and leaves data/latest.csv as it was
C25_StagesOnlyAddColumns == [][StepAddsColumns]_vars

\* the three stages have run on a panel with rows: the merged panel holds
\* the price, the volatility, the change and the positioning columns
C25_Witness ==
    /\ IsPresent(merged_csv) /\ IsPresent(latest_csv)
    /\ NRows(Val(merged_csv)) > 3
    /\ {"EURUSD", Vol30Col("EURUSD"), ChgCol("EURUSD", "1W"), "JPY_lev_net"}
          \subseteq Columns(Val(merged_csv))
    /\ "JPY_lev_net" \notin Columns(Val(latest_csv))
    /\ \E i \in 1..NRows(Val(merged_csv)) : IsPresent(Cell(Val(merged_csv), i, "JPY_lev_net"))

Vol30At(p, t) == Cell(master, t, Vol30Col(p))
\* the log return of pair p at row j, in units of ln 2
ReturnAt(p, j) == Log2(Val(Cell(master, j, p))) - Log2(Val(Cell(master, j - 1, p)))
\* the price of pair p is present on each of the rows t - VolWindow .. t
PricesBack(p, t) ==
    t > VolWindow /\ \A j \in (t - VolWindow)..t : IsPresent(Cell(master, j, p))

\* C26: the realized volatility of a pair at row t is present exactly when
\* the price is present on the rows t - VolWindow .. t, and is then the
\* dispersion of the VolWindow log returns ending at row t; it is absent on
\* the first VolWindow rows and on the VolWindow rows after an absent price
C26_VolFromFullWindowOfReturns ==
    VolDone =>
        \A p \in VolPairs : \A t \in 1..NRows(master) :
            /\ IsPresent(Vol30At(p, t)) <=> PricesBack(p, t)
            /\ PricesBack(p, t) =>
                 LET win == (t - VolWindow + 1)..t
                     r == [j \in win |-> ReturnAt(p, j)]
                     sq == [j \in win |-> ReturnAt(p, j) * ReturnAt(p, j)]
                 IN Val(Vol30At(p, t))
                      = VolWindow * SumOver(sq, win) - SumOver(r, win) * SumOver(r, win)
            /\ t <= VolWindow => ~IsPresent(Vol30At(p, t))
            /\ \A k \in 1..t :
                  (t - k <= VolWindow /\ ~IsPresent(Cell(master, k, p)))
                  => ~IsPresent(Vol30At(p, t))

\* USDJPY has no price on one row of the panel: its volatility is present
\* before it, absent on that row and the VolWindow rows after it, present
\* again on the next, and not zero there
C26_Witness ==
    /\ VolDone
    /\ \E k \in 1..NRows(master) :
          /\ ~IsPresent(Cell(master, k, "USDJPY"))
          /\ k > 1 /\ IsPresent(Vol30At("USDJPY", k - 1))
          /\ k + VolWindow + 1 <= NRows(master)
          /\ \A t \in k..(k + VolWindow) : ~IsPresent(Vol30At("USDJPY", t))
          /\ IsPresent(Vol30At("USDJPY", k + VolWindow + 1))
          /\ Val(Vol30At("USDJPY", k + VolWindow + 1)) > 0

\* pipeline.py has run to its end
PipelineSucceeded ==
    /\ ChangesDone
    /\ latest_csv = Some(master) /\ dated_csv = Some(master)
    /\ ~SummaryRaises(master)
\* cot_pipeline.py has run to its end
CotSucceeded ==
    /\ IsPresent(positioning) /\ IsPresent(cot_df) /\ IsPresent(merged_csv)
    /\ \A t \in Tickers : SummaryCols \subseteq Columns(Val(positioning)[t])
CotStarted ==
    \/ pc \in {"cot_pipeline.py", "calculate_positioning", "save_cot",
               "merge_with_master", "cot_summary", "cot_done", "cot_failed"}
    \/ raw_df # <<>> \/ IsPresent(positioning) \/ IsPresent(cot_df)
DashboardsStarted ==
    pc \in {"create_dashboards.py", "dashboards_done", "dashboards_failed"}

\* C27: under run_all, cot_pipeline.py is started only after pipeline.py has
\* run to its end, create_dashboards.py only after cot_pipeline.py has, and
\* the run is done only after the three; after a stage that ended with an
\* error nothing more is started
C27_StagesInOrderStopOnError ==
    /\ CotStarted => PipelineSucceeded
    /\ (DashboardsStarted \/ pc = "run_all_done") => (PipelineSucceeded /\ CotSucceeded)
    /\ pc = "run_all_failed" =>
         /\ ~PipelineSucceeded => ~CotStarted
         /\ ~(PipelineSucceeded /\ CotSucceeded)

\* run_all has stopped on the error of pipeline.py, no report fetched
C27_Witness ==
    /\ pc = "run_all_failed"
    /\ ~PipelineSucceeded
    /\ ~CotStarted

\* C28: the columns the final summary of cot_pipeline.main reads are among
\* the columns of every record calculate_positioning returns, and a run that
\* has saved the positioning panel does not end with an error
C28_SummaryColumnsExist ==
    /\ Positioned => \A t \in Tickers : SummaryCols \subseteq Columns(Val(positioning)[t])
    /\ (Positioned /\ IsPresent(cot_df)) => pc # "cot_failed"

\* the panel is too short for a volatility, or for a volatility percentile
ShortHistory ==
    \E p \in VolPairs :
       \/ ~HasValue(Col(master, Vol30Col(p)))
       \/ ~HasValue(Col(master, VolPctCol(p)))

\* C29: on a panel too short for any vol30 value or for any percentile,
\* calculate_volatility leaves the columns absent and returns: the run does
\* not fail there and goes on to save_data
C29_ShortHistoryNoError ==
    (VolDone /\ ShortHistory) =>
       /\ pc # "pipeline_failed"
       /\ pc \notin {"calculate_volatility", "calculate_changes", "save_data"}
            => IsPresent(latest_csv)

MergeReturned == pc \in {"cot_summary", "cot_done", "cot_failed"} /\ Positioned

\* C30: without data/latest.csv, merge_with_master returns without writing
\* data/latest_with_cot.csv, and data/cot_latest.csv holds the positioning
\* panel save_cot wrote
C30_NoMasterFileNoMerge ==
    /\ (pc = "merge_with_master" /\ ~IsPresent(latest_csv)) =>
          (~IsPresent(merged_csv) /\ IsPresent(cot_df))
    /\ (MergeReturned /\ ~IsPresent(latest_csv)) =>
          /\ ~IsPresent(merged_csv)
          /\ cot_df = Some(save_cot(Val(positioning)))
          /\ NRows(Val(cot_df)) > 0

\* merge_with_master has returned in a run without master file
C30_Witness ==
    /\ pc = "cot_summary"
    /\ ~IsPresent(latest_csv)
    /\ IsPresent(cot_df)
    /\ ~IsPresent(merged_csv)

====
